---- MODULE Spec2Model ----
(***************************************************************************)
(* TimeTracker (src/src/extension.ts): the session-time accounting state   *)
(* machine of the workspace time tracker, with the host's clock, timers,   *)
(* activity events and key-value store (globalState) as its environment.   *)
(*                                                                         *)
(* Clock readings (Date.now()) are in milliseconds; the elapsed-time       *)
(* fields are in seconds, as in the source ((Date.now() - startTime) /     *)
(* 1000).  Every clock reading of the model is a whole number of seconds,  *)
(* so the division is exact.                                               *)
(***************************************************************************)
EXTENDS Integers, Sequences, FiniteSets, TLC

\* ------------------------------------------------------------------ bounds

\* The session is observed for this many seconds of wall-clock time.
MaxTime == 40

\* At most this many (textChange, selectionChange) listener pairs are
\* registered, i.e. MaxSubscriptions - 1 resumptions after a pause.
MaxSubscriptions == 2

\* dispose() is called at most this many times.
MaxDisposeCalls == 2

\* The amounts of time (seconds) that pass between two events: one second
\* less than the inactivity window, and the window itself.
ClockSteps == {19, 20}

\* totalTime already persisted for a workspace by earlier sessions.
PriorTotal == 7

\* The durations (seconds) formatTime is applied to: hours, minutes and
\* seconds around each field's one-digit / two-digit / three-digit and
\* wrap-around edges (0, 3661 and 360000 among them).
FormatHours == {0, 1, 9, 10, 23, 24, 25, 99, 100, 101}
FormatMinutes == {0, 1, 9, 10, 59}
FormatSeconds == {0, 1, 9, 10, 59}
FormatInputs ==
    {h * 3600 + m * 60 + sec :
        h \in FormatHours, m \in FormatMinutes, sec \in FormatSeconds}

\* ---------------------------------------------------------------- constants

MsPerSecond == 1000

\* private readonly inactivityTimeout: number = 20 * 1000
inactivityTimeout == 20 * 1000

\* The value of an unset timer handle (inactivityTimer / updateInterval are
\* "NodeJS.Timeout | undefined"); a set inactivityTimer is modelled by the
\* clock reading at which the host fires it.
undefined == -1

\* vscode.workspace.workspaceFolders?.[0]: no folder open, or the URI of the
\* first folder.
NoFolder == ""
\* The folders the window may have open, and one more workspace that has a
\* record in the store.
Folders == {"file:///a"}
OtherFolder == "file:///b"

\* ---------------------------------------------------------------- variables

VARIABLES
    now,                \* Date.now(), ms since the tracker was constructed
    workspaceFolder,    \* the first workspace folder of the window
    globalState,        \* context.globalState: key -> WorkspaceStats
    isTracking,
    startTime,
    currentSessionTime,
    inactivityTimer,
    updateInterval,     \* TRUE when the 1 s refresh interval is scheduled
    lastSaveTime,
    subscriptions,      \* listener pairs pushed to context.subscriptions
    hostTimeouts,       \* deadlines of the pending setTimeout timers
    hostIntervals,      \* number of active setInterval timers
    disposed,           \* dispose() has run (host shutdown)
    disposeCalls,       \* how many times dispose() has run
    promptOpen,         \* the modal confirmation of resetStatistics is open
    \* history variables, read by the properties only
    lastOp,             \* the operation that produced this state
    pristine,           \* only time has passed since construction
    initialTotal,       \* the workspace's persisted totalTime at construction
    hadReset,           \* resetStats() ran in this session
    sinceSave,          \* what happened since the last saveStats()
    lastSaveGap,        \* sinceSave as it was when the last saveStats() ran
    lastActivityAt,     \* clock reading of the last activity event
    \* the formatTime call under observation
    formatInput,        \* its argument, in seconds
    formatOutput        \* the text it returned, as a sequence of characters

vars == <<now, workspaceFolder, globalState, isTracking, startTime,
          currentSessionTime, inactivityTimer, updateInterval, lastSaveTime,
          subscriptions, hostTimeouts, hostIntervals, disposed, disposeCalls,
          promptOpen, lastOp, pristine, initialTotal, hadReset,
          sinceSave, lastSaveGap, lastActivityAt, formatInput, formatOutput>>

formatVars == <<formatInput, formatOutput>>

\* The tracker object and the store it writes, as one record, so that the
\* methods below are functions from the state before the call to the state
\* after it.
Self ==
    [isTracking |-> isTracking, startTime |-> startTime,
     currentSessionTime |-> currentSessionTime,
     inactivityTimer |-> inactivityTimer, updateInterval |-> updateInterval,
     lastSaveTime |-> lastSaveTime, subscriptions |-> subscriptions,
     hostTimeouts |-> hostTimeouts, hostIntervals |-> hostIntervals,
     globalState |-> globalState]

Becomes(s) ==
    /\ isTracking' = s.isTracking
    /\ startTime' = s.startTime
    /\ currentSessionTime' = s.currentSessionTime
    /\ inactivityTimer' = s.inactivityTimer
    /\ updateInterval' = s.updateInterval
    /\ lastSaveTime' = s.lastSaveTime
    /\ subscriptions' = s.subscriptions
    /\ hostTimeouts' = s.hostTimeouts
    /\ hostIntervals' = s.hostIntervals
    /\ globalState' = s.globalState

\* ------------------------------------------------------------------ methods

\* `stats_${workspaceFolder?.uri.toString() || 'global'}`
getWorkspaceKey(folder) ==
    "stats_" \o (IF folder = NoFolder THEN "global" ELSE folder)

\* context.globalState.get(key) || { totalTime: 0, lastSaveTime: 0 }
storedStats(gs, key) ==
    IF key \in DOMAIN gs THEN gs[key]
    ELSE [totalTime |-> 0, lastSaveTime |-> 0]

\* context.globalState.update(key, value)
update(gs, key, value) ==
    [k \in DOMAIN gs \cup {key} |-> IF k = key THEN value ELSE gs[k]]

\* computeElapsed with the isTracking test forgotten.
computeElapsedWhilePaused(s, t) ==
    s.currentSessionTime + (t - s.startTime) \div MsPerSecond

\* isTracking ? currentSessionTime + (Date.now() - startTime) / 1000
\*            : currentSessionTime
computeElapsed(s, t) ==
    IF s.isTracking
    THEN s.currentSessionTime + (t - s.startTime) \div MsPerSecond
    ELSE s.currentSessionTime

\* clearTimeout(handle) cancels that timer if it is still pending.
clearInactivityTimer(s) ==
    IF s.inactivityTimer # undefined
    THEN [s EXCEPT !.hostTimeouts = @ \ {s.inactivityTimer},
                   !.inactivityTimer = undefined]
    ELSE s

clearUpdateInterval(s) ==
    IF s.updateInterval
    THEN [s EXCEPT !.hostIntervals = @ - 1, !.updateInterval = FALSE]
    ELSE s

\* this.inactivityTimer = setTimeout(..., this.inactivityTimeout)
setInactivityTimeout(s, t) ==
    [s EXCEPT !.hostTimeouts = @ \cup {t + inactivityTimeout},
              !.inactivityTimer = t + inactivityTimeout]

\* resetInactivityTimer that leaves a pending deadline in place.
resetInactivityTimerKeepingPending(s, t) ==
    IF s.inactivityTimer # undefined THEN s
    ELSE setInactivityTimeout(s, t)

\* resetInactivityTimer that arms the new deadline without cancelling the
\* pending one.
resetInactivityTimerWithoutClearing(s, t) == setInactivityTimeout(s, t)

resetInactivityTimer(s, t) ==
    setInactivityTimeout(clearInactivityTimer(s), t)

\* resetInactivityTimer(); updateStatusBar()
onActivity(s, t) == resetInactivityTimer(s, t)

\* Two more listeners are subscribed and pushed to context.subscriptions.
setupEventListeners(s) == [s EXCEPT !.subscriptions = @ + 1]

\* this.updateInterval = setInterval(..., 1000)
setUpdateInterval(s) ==
    [s EXCEPT !.hostIntervals = @ + 1, !.updateInterval = TRUE]

\* startTracking that does not restart startTime.
startTrackingKeepingStartTime(s, t) ==
    IF s.isTracking THEN s
    ELSE setUpdateInterval(
            setupEventListeners([s EXCEPT !.isTracking = TRUE]))

startTracking(s, t) ==
    IF s.isTracking THEN s
    ELSE setUpdateInterval(
            setupEventListeners([s EXCEPT !.isTracking = TRUE,
                                          !.startTime = t]))

\* stopTracking that does not fold the run into currentSessionTime.
stopTrackingWithoutFolding(s, t) ==
    IF ~s.isTracking THEN s
    ELSE clearUpdateInterval(clearInactivityTimer(
            [s EXCEPT !.isTracking = FALSE]))

\* stopTracking without the early return.
stopTrackingUnguarded(s, t) ==
    clearUpdateInterval(clearInactivityTimer(
        [s EXCEPT !.isTracking = FALSE,
                  !.currentSessionTime =
                      @ + (t - s.startTime) \div MsPerSecond]))

stopTracking(s, t) ==
    IF ~s.isTracking THEN s
    ELSE clearUpdateInterval(clearInactivityTimer(
            [s EXCEPT !.isTracking = FALSE,
                      !.currentSessionTime =
                          @ + (t - s.startTime) \div MsPerSecond]))

\* getStats that moves the baseline on every call.
getStatsAlwaysRebasing(s, t) ==
    [s EXCEPT !.lastSaveTime = computeElapsed(s, t)]

\* getStats(): the tracker after the call (the lazy baseline) ...
getStats(s, t) ==
    IF s.lastSaveTime = 0
    THEN [s EXCEPT !.lastSaveTime = computeElapsed(s, t)]
    ELSE s

\* ... and the record it returns.
getStatsResult(s, folder) == storedStats(s.globalState, getWorkspaceKey(folder))

\* saveStats that never moves the in-memory baseline.
saveStatsKeepingBaseline(s, t, folder, written) ==
    LET existingStats == getStatsResult(s, folder)
        s1 == getStats(s, t)
        timeSinceLastSave == computeElapsed(s1, t) - s1.lastSaveTime
        newStats == [totalTime |-> existingStats.totalTime + timeSinceLastSave,
                     lastSaveTime |-> t]
    IN  [s1 EXCEPT !.globalState = IF written
                                   THEN update(@, getWorkspaceKey(folder),
                                               newStats)
                                   ELSE @]

\* saveStats that adds the whole elapsed time instead of the delta.
saveStatsAddingElapsed(s, t, folder, written) ==
    LET existingStats == getStatsResult(s, folder)
        s1 == getStats(s, t)
        currentTotalSessionTime == computeElapsed(s1, t)
        newStats == [totalTime |->
                         existingStats.totalTime + currentTotalSessionTime,
                     lastSaveTime |-> t]
    IN  [s1 EXCEPT !.lastSaveTime = currentTotalSessionTime,
                   !.globalState = IF written
                                   THEN update(@, getWorkspaceKey(folder),
                                               newStats)
                                   ELSE @]

\* saveStats().  written: whether the store keeps the record handed to
\* globalState.update (the Thenable it returns is dropped).
saveStats(s, t, folder, written) ==
    LET existingStats == getStatsResult(s, folder)
        s1 == getStats(s, t)
        currentTotalSessionTime == computeElapsed(s1, t)
        timeSinceLastSave == currentTotalSessionTime - s1.lastSaveTime
        newStats == [totalTime |-> existingStats.totalTime + timeSinceLastSave,
                     lastSaveTime |-> t]
    IN  [s1 EXCEPT !.lastSaveTime = currentTotalSessionTime,
                   !.globalState = IF written
                                   THEN update(@, getWorkspaceKey(folder),
                                               newStats)
                                   ELSE @]

\* resetStats that does not restart startTime.
resetStatsKeepingStartTime(s, t, folder) ==
    [s EXCEPT !.globalState = update(@, getWorkspaceKey(folder),
                                     [totalTime |-> 0, lastSaveTime |-> t]),
              !.currentSessionTime = 0,
              !.lastSaveTime = 0]

\* resetStats that zeroes every record of the store.
resetStatsOfEveryWorkspace(s, t, folder) ==
    [s EXCEPT !.globalState =
                  [k \in DOMAIN @ \cup {getWorkspaceKey(folder)} |->
                      [totalTime |-> 0, lastSaveTime |-> t]],
              !.currentSessionTime = 0,
              !.lastSaveTime = 0,
              !.startTime = t]

\* resetStats that also pauses the tracker and releases its timers.
resetStatsPausing(s, t, folder) ==
    clearUpdateInterval(clearInactivityTimer(
        [s EXCEPT !.globalState = update(@, getWorkspaceKey(folder),
                                         [totalTime |-> 0, lastSaveTime |-> t]),
                  !.currentSessionTime = 0,
                  !.lastSaveTime = 0,
                  !.startTime = t,
                  !.isTracking = FALSE]))

resetStats(s, t, folder) ==
    [s EXCEPT !.globalState = update(@, getWorkspaceKey(folder),
                                     [totalTime |-> 0, lastSaveTime |-> t]),
              !.currentSessionTime = 0,
              !.lastSaveTime = 0,
              !.startTime = t]

\* The callback of the confirmation prompt, run whatever the answer.
resetStatsThenRegardless(s, t, folder, selection) == resetStats(s, t, folder)

\* .then(selection => { if (selection === 'Reset') { tracker.resetStats() } })
\* A dismissed prompt resolves to undefined, modelled as "dismissed".
resetStatsThen(s, t, folder, selection) ==
    IF selection = "Reset" THEN resetStats(s, t, folder) ELSE s

\* saveStats(); getStats(); the message is shown by the host.
showStatistics(s, t, folder, written) ==
    getStats(saveStats(s, t, folder, written), t)

\* dispose that saves and releases the timers without stopTracking().
disposeWithoutStopping(s, t, folder) ==
    clearUpdateInterval(clearInactivityTimer(
        saveStats(s, t, folder, TRUE)))

dispose(s, t, folder) ==
    clearUpdateInterval(clearInactivityTimer(
        stopTracking(saveStats(s, t, folder, TRUE), t)))

\* One registered listener of onDidChangeTextDocument /
\* onDidChangeTextEditorSelection: onActivity(), then resume if paused.
listener(s, t) ==
    LET s1 == onActivity(s, t)
    IN  IF ~s1.isTracking THEN startTracking(s1, t) ELSE s1

\* The host delivers one event to the k listeners registered for it.
RECURSIVE fire(_, _, _)
fire(s, t, k) == IF k = 0 THEN s ELSE fire(listener(s, t), t, k - 1)

\* number.toString(), as the sequence of its decimal digits
Digits == <<"0", "1", "2", "3", "4", "5", "6", "7", "8", "9">>

RECURSIVE toString(_)
toString(n) ==
    IF n < 10 THEN <<Digits[n + 1]>>
    ELSE toString(n \div 10) \o <<Digits[(n % 10) + 1]>>

\* str.padStart(targetLength, padString) for a one-character padString
RECURSIVE padStart(_, _, _)
padStart(str, targetLength, padString) ==
    IF Len(str) >= targetLength THEN str
    ELSE padStart(<<padString>> \o str, targetLength, padString)

\* formatTime with the hours wrapped at a day.
formatTimeWrappingHours(seconds) ==
    LET hours == (seconds \div 3600) % 24
        minutes == (seconds % 3600) \div 60
        secs == seconds % 60
    IN  padStart(toString(hours), 2, "0") \o <<":">>
            \o padStart(toString(minutes), 2, "0") \o <<":">>
            \o padStart(toString(secs), 2, "0")

\* formatTime(seconds), for a whole non-negative number of seconds
\* (Math.floor of a quotient of naturals is \div).
formatTime(seconds) ==
    LET hours == seconds \div 3600
        minutes == (seconds % 3600) \div 60
        secs == seconds % 60
    IN  padStart(toString(hours), 2, "0") \o <<":">>
            \o padStart(toString(minutes), 2, "0") \o <<":">>
            \o padStart(toString(secs), 2, "0")

\* --------------------------------------------------------- state functions

workspaceKey == getWorkspaceKey(workspaceFolder)
Keys == {getWorkspaceKey(f) : f \in Folders \cup {NoFolder, OtherFolder}}
TotalTime == storedStats(globalState, workspaceKey).totalTime
Elapsed == computeElapsed(Self, now)

\* -------------------------------------------------------------------- Init

PriorStats == [totalTime |-> PriorTotal, lastSaveTime |-> 0]

\* new TimeTracker(context): the field initialisers, then startTracking().
Constructed ==
    startTracking(
        [isTracking |-> FALSE, startTime |-> 0, currentSessionTime |-> 0,
         inactivityTimer |-> undefined, updateInterval |-> FALSE,
         lastSaveTime |-> 0, subscriptions |-> 0,
         hostTimeouts |-> {}, hostIntervals |-> 0,
         globalState |-> globalState], 0)

InitTracker ==
    /\ now = 0
    /\ workspaceFolder \in Folders \cup {NoFolder}
    /\ \E stored \in {Keys, Keys \ {getWorkspaceKey(workspaceFolder)}} :
            globalState = [k \in stored |-> PriorStats]
    /\ isTracking = Constructed.isTracking
    /\ startTime = Constructed.startTime
    /\ currentSessionTime = Constructed.currentSessionTime
    /\ inactivityTimer = Constructed.inactivityTimer
    /\ updateInterval = Constructed.updateInterval
    /\ lastSaveTime = Constructed.lastSaveTime
    /\ subscriptions = Constructed.subscriptions
    /\ hostTimeouts = Constructed.hostTimeouts
    /\ hostIntervals = Constructed.hostIntervals
    /\ disposed = FALSE
    /\ disposeCalls = 0
    /\ promptOpen = FALSE
    /\ lastOp = "constructor"
    /\ pristine = TRUE
    /\ initialTotal = TotalTime
    /\ hadReset = FALSE
    /\ sinceSave = "none"
    /\ lastSaveGap = "none"
    /\ lastActivityAt = undefined

\* The constructor's updateStatusBar() formats currentSessionTime = 0; the
\* later refreshes of the display are not followed by Spec.
Init ==
    /\ InitTracker
    /\ formatInput = 0
    /\ formatOutput = formatTime(0)

\* ----------------------------------------------------------------- actions

\* A call made by the user, the host or another extension: not time passing.
Called(op) ==
    /\ lastOp' = op
    /\ pristine' = FALSE
    /\ UNCHANGED <<now, workspaceFolder, initialTotal, formatVars>>

Saved ==
    /\ sinceSave' = "same_instant"
    /\ lastSaveGap' = sinceSave

\* Time passes: by one of ClockSteps, or up to the next pending timeout if
\* that comes first (the host fires a timer when it is due).
AdvanceClock ==
    /\ \A due \in hostTimeouts : now < due
    /\ \E d \in ClockSteps :
        LET target == now + d * MsPerSecond
            t == IF \E due \in hostTimeouts : due < target
                 THEN CHOOSE due \in hostTimeouts :
                        \A other \in hostTimeouts : due <= other
                 ELSE target
        IN  /\ t <= MaxTime * MsPerSecond
            /\ now' = t
    /\ sinceSave' = CASE sinceSave = "none" -> "none"
                      [] isTracking -> "accrued"
                      [] sinceSave = "same_instant" -> "paused_only"
                      [] OTHER -> sinceSave
    /\ lastOp' = "clock"
    /\ UNCHANGED <<workspaceFolder, globalState, isTracking, startTime,
                   currentSessionTime, inactivityTimer, updateInterval,
                   lastSaveTime, subscriptions, hostTimeouts, hostIntervals,
                   disposed, disposeCalls, promptOpen, pristine, initialTotal,
                   hadReset, lastSaveGap, lastActivityAt, formatVars>>

\* A setTimeout(() => this.stopTracking(), inactivityTimeout) comes due: the
\* host retires the timer and runs its callback.
InactivityTimeout ==
    /\ ~disposed
    /\ \E due \in hostTimeouts :
        /\ now >= due
        /\ Becomes(stopTracking([Self EXCEPT !.hostTimeouts = @ \ {due}], now))
    /\ lastOp' = "inactivityTimeout"
    /\ UNCHANGED <<now, workspaceFolder, disposed, disposeCalls, promptOpen,
                   pristine, initialTotal, hadReset, sinceSave, lastSaveGap,
                   lastActivityAt, formatVars>>

\* setInterval(() => this.updateStatusBar(), 1000) ticks: the status text is
\* recomputed, no field of the tracker changes.
UpdateTick ==
    /\ ~disposed
    /\ hostIntervals > 0
    /\ UNCHANGED vars

\* onDidChangeTextDocument with n content changes: every registered listener
\* runs, and acts if n > 0.
TextChange ==
    /\ ~disposed
    /\ isTracking \/ subscriptions < MaxSubscriptions
    /\ \E n \in 0..1 :
        IF n > 0
        THEN /\ Becomes(fire(Self, now, subscriptions))
             /\ lastActivityAt' = now
             /\ Called(IF isTracking THEN "activity" ELSE "activityResumes")
             /\ UNCHANGED <<disposed, disposeCalls, promptOpen, hadReset, sinceSave, lastSaveGap>>
        ELSE UNCHANGED vars

\* onDidChangeTextEditorSelection: every registered listener runs.
SelectionChange ==
    /\ ~disposed
    /\ isTracking \/ subscriptions < MaxSubscriptions
    /\ Becomes(fire(Self, now, subscriptions))
    /\ lastActivityAt' = now
    /\ Called(IF isTracking THEN "activity" ELSE "activityResumes")
    /\ UNCHANGED <<disposed, disposeCalls, promptOpen, hadReset, sinceSave, lastSaveGap>>

\* tracker.startTracking() (public)
StartTracking ==
    /\ ~disposed
    /\ isTracking \/ subscriptions < MaxSubscriptions
    /\ Becomes(startTracking(Self, now))
    /\ Called("startTracking")
    /\ UNCHANGED <<disposed, disposeCalls, promptOpen, hadReset, sinceSave, lastSaveGap, lastActivityAt>>

\* tracker.stopTracking() (public)
StopTracking ==
    /\ ~disposed
    /\ Becomes(stopTracking(Self, now))
    /\ Called("stopTracking")
    /\ UNCHANGED <<disposed, disposeCalls, promptOpen, hadReset, sinceSave, lastSaveGap, lastActivityAt>>

\* tracker.getStats() (public)
GetStats ==
    /\ ~disposed
    /\ Becomes(getStats(Self, now))
    /\ Called("getStats")
    /\ UNCHANGED <<disposed, disposeCalls, promptOpen, hadReset, sinceSave, lastSaveGap, lastActivityAt>>

\* The time-tracker.showStatistics command; the store keeps the write.
ShowStatistics ==
    /\ ~disposed
    /\ Becomes(showStatistics(Self, now, workspaceFolder, TRUE))
    /\ Called("showStatistics")
    /\ Saved
    /\ UNCHANGED <<disposed, disposeCalls, promptOpen, hadReset, lastActivityAt>>

\* The same command when the store's write fails: the store may or may not
\* hold the new record afterwards.
ShowStatisticsWriteFails ==
    /\ ~disposed
    /\ \E kept \in BOOLEAN :
        Becomes(showStatistics(Self, now, workspaceFolder, kept))
    /\ Called("showStatisticsWriteFailed")
    /\ Saved
    /\ UNCHANGED <<disposed, disposeCalls, promptOpen, hadReset, lastActivityAt>>

\* The time-tracker.resetStatistics command: the prompt opens ({ modal: true
\* }, so one at a time); the tracker is not touched until it is answered.
ResetStatisticsCommand ==
    /\ ~disposed
    /\ ~promptOpen
    /\ promptOpen' = TRUE
    /\ Called("resetStatisticsCommand")
    /\ UNCHANGED <<globalState, isTracking, startTime, currentSessionTime,
                   inactivityTimer, updateInterval, lastSaveTime,
                   subscriptions, hostTimeouts, hostIntervals, disposed,
                   disposeCalls, hadReset, sinceSave, lastSaveGap,
                   lastActivityAt>>

\* An open prompt is answered 'Reset': tracker.resetStats() runs.
ResetStats ==
    /\ ~disposed
    /\ promptOpen
    /\ promptOpen' = FALSE
    /\ Becomes(resetStatsThen(Self, now, workspaceFolder, "Reset"))
    /\ Called("resetStats")
    /\ hadReset' = TRUE
    /\ sinceSave' = "none"
    /\ UNCHANGED <<disposed, disposeCalls, lastSaveGap, lastActivityAt>>

\* An open prompt is dismissed.
DismissPrompt ==
    /\ ~disposed
    /\ promptOpen
    /\ promptOpen' = FALSE
    /\ Becomes(resetStatsThen(Self, now, workspaceFolder, "dismissed"))
    /\ Called("promptDismissed")
    /\ UNCHANGED <<disposed, disposeCalls, hadReset, sinceSave, lastSaveGap,
                   lastActivityAt>>

\* tracker.dispose(): the host disposes context.subscriptions on shutdown.
Dispose ==
    /\ disposeCalls < MaxDisposeCalls
    /\ Becomes(dispose(Self, now, workspaceFolder))
    /\ disposed' = TRUE
    /\ disposeCalls' = disposeCalls + 1
    /\ Called("dispose")
    /\ Saved
    /\ UNCHANGED <<promptOpen, hadReset, lastActivityAt>>

Next ==
    \/ AdvanceClock
    \/ InactivityTimeout
    \/ UpdateTick
    \/ TextChange
    \/ SelectionChange
    \/ StartTracking
    \/ StopTracking
    \/ GetStats
    \/ ShowStatistics
    \/ ResetStatisticsCommand
    \/ ResetStats
    \/ DismissPrompt
    \/ Dispose

Spec == Init /\ [][Next]_vars

\* The same program with a store whose writes can fail.
NextFail == Next \/ ShowStatisticsWriteFails

SpecFail == Init /\ [][NextFail]_vars

\* formatTime alone, applied to the durations of FormatInputs.
InitFormat ==
    /\ InitTracker
    /\ formatInput \in FormatInputs
    /\ formatOutput = formatTime(formatInput)

FormatTime ==
    /\ \E seconds \in FormatInputs :
        /\ formatInput' = seconds
        /\ formatOutput' = formatTime(seconds)
    /\ lastOp' = "formatTime"
    /\ UNCHANGED <<now, workspaceFolder, globalState, isTracking, startTime,
                   currentSessionTime, inactivityTimer, updateInterval,
                   lastSaveTime, subscriptions, hostTimeouts, hostIntervals,
                   disposed, disposeCalls, promptOpen, pristine, initialTotal,
                   hadReset, sinceSave, lastSaveGap, lastActivityAt>>

NextFormat == FormatTime

SpecFormat == InitFormat /\ [][NextFormat]_vars

\* --------------------------------------------------------------- properties

SaveOps == {"showStatistics", "dispose"}
ResumeOps == {"activityResumes"}
ActivityOps == {"activity"} \cup ResumeOps
OtherKeys == Keys \ {workspaceKey}

\* C1: the first save of a session, after d > 0 seconds of continuous
\* tracking since construction with no other call in between, adds d to the
\* persisted totalTime of the workspace.
C1_FirstSaveCreditsElapsed ==
    [][(pristine /\ now > 0 /\ lastOp' = "showStatistics")
        => TotalTime' = TotalTime + now \div MsPerSecond]_vars

\* C2: after dispose(), in a session without reset, the persisted totalTime
\* is its value at construction plus the session's elapsed active time.
C2_DisposeCreditsSession ==
    (disposed /\ ~hadReset) => TotalTime = initialTotal + Elapsed

\* C3: a save made while Paused, when the clock has advanced since the
\* previous save but only while the tracker was Paused, leaves the persisted
\* totalTime unchanged.
C3_NoAccrualWhilePaused ==
    [][(sinceSave = "paused_only" /\ ~isTracking /\ lastOp' \in SaveOps)
        => TotalTime' = TotalTime]_vars

C3_Witness ==
    /\ lastOp = "showStatistics"
    /\ lastSaveGap = "paused_only"
    /\ ~isTracking
    /\ currentSessionTime > 0

\* C4: a save made with no clock advance since the previous save adds zero
\* to the persisted totalTime, whether Tracking or Paused, before or after a
\* reset.
C4_SaveIdempotent ==
    [][(sinceSave = "same_instant" /\ lastOp' \in SaveOps)
        => TotalTime' = TotalTime]_vars

C4_Witness ==
    /\ lastOp = "showStatistics"
    /\ lastSaveGap = "same_instant"
    /\ isTracking
    /\ hadReset
    /\ lastSaveTime > 0

\* C5: when the store's write fails, save() leaves the in-memory
\* lastSaveTime at its value before the call (so that the next save credits
\* the unsaved delta).
C5_FailedWriteKeepsBaseline ==
    [][lastOp' = "showStatisticsWriteFailed"
        => lastSaveTime' = lastSaveTime]_vars

\* C6: with no activity and no call since construction at time 0, once the
\* inactivity window (20 s) has passed the state is Paused and
\* currentSessionTime is the 20 s of the run.
C6_AutoPauseFromStart ==
    (pristine /\ now > inactivityTimeout)
        => /\ ~isTracking
           /\ currentSessionTime = inactivityTimeout \div MsPerSecond

\* C7: every activity signal arms the deadline for the full window from that
\* instant, replacing the pending one: a pending deadline is always the last
\* activity plus 20 s and the tracker is Tracking until then; the tracker
\* leaves Tracking by itself only through the deadline firing, at the last
\* activity plus 20 s.
C7_PendingDeadline ==
    inactivityTimer # undefined
        => /\ lastActivityAt # undefined
           /\ inactivityTimer = lastActivityAt + inactivityTimeout
           /\ now <= inactivityTimer
           /\ isTracking

C7_DeadlineSteps ==
    /\ lastOp' \in ActivityOps
        => isTracking' /\ inactivityTimer' = now + inactivityTimeout
    /\ lastOp' = "inactivityTimeout"
        => ~isTracking' /\ now = lastActivityAt + inactivityTimeout
    /\ (isTracking /\ ~isTracking' /\ lastOp' \notin {"stopTracking", "dispose"})
        => lastOp' = "inactivityTimeout"

C7_ActivityRearmsDeadline == []C7_PendingDeadline /\ [][C7_DeadlineSteps]_vars

C7_Witness ==
    /\ lastOp = "inactivityTimeout"
    /\ lastActivityAt = 19 * MsPerSecond
    /\ now = 39 * MsPerSecond
    /\ ~isTracking

\* C8: without reset, computeElapsed() never decreases from one step to the
\* next, and a start() while Tracking or a stop() while Paused leaves it
\* unchanged.
C8_ElapsedSteps ==
    /\ lastOp' # "resetStats" => Elapsed' >= Elapsed
    /\ (lastOp' = "startTracking" /\ isTracking) => Elapsed' = Elapsed
    /\ (lastOp' = "stopTracking" /\ ~isTracking) => Elapsed' = Elapsed

C8_ElapsedMonotonic == [][C8_ElapsedSteps]_vars

C8_Witness ==
    /\ lastOp = "stopTracking"
    /\ subscriptions >= 2
    /\ currentSessionTime > 20
    /\ ~hadReset

\* C9: right after reset(), Tracking or Paused, whatever was accumulated,
\* getStats().totalTime is 0 and computeElapsed() is 0.
C9_ResetZeroes ==
    lastOp = "resetStats"
        => /\ getStatsResult(Self, workspaceFolder).totalTime = 0
           /\ Elapsed = 0

C9_Witness ==
    /\ lastOp = "resetStats"
    /\ isTracking
    /\ now > 0
    /\ initialTotal > 0
    /\ TotalTime = 0

\* C10: no step changes the stored record of a workspace identity other
\* than the current one (nor creates or removes one).
C10_OtherRecordsSteps ==
    \A k \in OtherKeys :
        /\ (k \in DOMAIN globalState') = (k \in DOMAIN globalState)
        /\ k \in DOMAIN globalState => globalState'[k] = globalState[k]

C10_OtherRecordsUntouched == [][C10_OtherRecordsSteps]_vars

C10_Witness ==
    /\ lastOp = "resetStats"
    /\ workspaceFolder # NoFolder
    /\ initialTotal = PriorTotal
    /\ TotalTime = 0
    /\ \A k \in OtherKeys : storedStats(globalState, k).totalTime = PriorTotal

\* The in-memory fields of the tracker and the two scheduled resources.
TrackerFields ==
    <<isTracking, startTime, currentSessionTime, lastSaveTime,
      inactivityTimer, updateInterval, hostTimeouts, hostIntervals>>

\* C11: start() while Tracking and stop() while Paused leave isTracking,
\* startTime, currentSessionTime, lastSaveTime and both scheduled resources
\* unchanged.
C11_RedundantSteps ==
    /\ (lastOp' = "startTracking" /\ isTracking)
        => TrackerFields' = TrackerFields
    /\ (lastOp' = "stopTracking" /\ ~isTracking)
        => TrackerFields' = TrackerFields

C11_RedundantCallsAreNoOps == [][C11_RedundantSteps]_vars

\* A start() that found the tracker Tracking: a start that acts sets
\* startTime to now.
C11_Witness ==
    /\ lastOp = "startTracking"
    /\ isTracking
    /\ startTime < now
    /\ currentSessionTime > 0

\* C15: an activity signal received while Paused leaves the tracker
\* Tracking with startTime = now, currentSessionTime and computeElapsed()
\* unchanged, the refresh tick scheduled and exactly one inactivity deadline
\* pending, for the full window.
C15_ResumeSteps ==
    (~isTracking /\ lastOp' \in ActivityOps)
        => /\ isTracking'
           /\ startTime' = now
           /\ currentSessionTime' = currentSessionTime
           /\ Elapsed' = Elapsed
           /\ updateInterval' /\ hostIntervals' = 1
           /\ inactivityTimer' = now + inactivityTimeout
           /\ hostTimeouts' = {now + inactivityTimeout}

C15_ActivityResumes == [][C15_ResumeSteps]_vars

C15_Witness ==
    /\ lastOp \in ResumeOps
    /\ isTracking
    /\ currentSessionTime > 0
    /\ subscriptions >= 2

\* C16: at most one inactivity deadline and at most one refresh tick are
\* scheduled, each the one the tracker holds the handle of; while Paused
\* neither is scheduled, and the refresh tick is scheduled exactly when the
\* state is Tracking.
C16_NoDuplicateTimers ==
    /\ Cardinality(hostTimeouts) <= 1
    /\ hostTimeouts = IF inactivityTimer = undefined THEN {}
                      ELSE {inactivityTimer}
    /\ hostIntervals <= 1
    /\ updateInterval = (hostIntervals = 1)
    /\ ~isTracking => (hostTimeouts = {} /\ hostIntervals = 0)
    /\ isTracking = (hostIntervals = 1)

C16_Witness ==
    /\ isTracking
    /\ subscriptions >= 2
    /\ hostTimeouts = {now + inactivityTimeout}
    /\ now > inactivityTimeout

\* C12: after dispose() the state is Paused, no inactivity deadline is
\* pending and no refresh tick is scheduled; a further dispose(), however
\* much later, leaves the persisted totalTime and the in-memory state as the
\* first one left them.
C12_AfterDispose ==
    disposed
        => /\ ~isTracking
           /\ inactivityTimer = undefined /\ hostTimeouts = {}
           /\ ~updateInterval /\ hostIntervals = 0

C12_SecondDisposeSteps ==
    (disposed /\ lastOp' = "dispose")
        => /\ TotalTime' = TotalTime
           /\ TrackerFields' = TrackerFields

C12_DisposeReleasesAll == []C12_AfterDispose /\ [][C12_SecondDisposeSteps]_vars

C12_Witness ==
    /\ lastOp = "dispose"
    /\ disposeCalls = 2
    /\ lastSaveGap = "paused_only"
    /\ currentSessionTime > 0
    /\ storedStats(globalState, workspaceKey).lastSaveTime = now
    /\ TotalTime > initialTotal

\* C14: the resetStatistics command changes neither the persisted records
\* nor the in-memory fields when it opens its prompt or when the prompt is
\* dismissed, whatever happened while the prompt was open; reset() runs only
\* on the answer 'Reset'.
C14_PromptSteps ==
    /\ lastOp' \in {"resetStatisticsCommand", "promptDismissed"}
        => /\ globalState' = globalState
           /\ TrackerFields' = TrackerFields
           /\ hadReset' = hadReset
    /\ lastOp' = "resetStats" => promptOpen

C14_ResetNeedsConfirmation == [][C14_PromptSteps]_vars

\* A prompt opened, the tracker went on working, the prompt was dismissed.
C14_Witness ==
    /\ lastOp = "promptDismissed"
    /\ ~promptOpen
    /\ ~hadReset
    /\ now > 0
    /\ TotalTime > initialTotal
    /\ currentSessionTime > 0

\* The text split at its colons, and the number a field of digits spells.
ColonsOf(text) == {i \in 1..Len(text) : text[i] = ":"}
IsDigits(field) ==
    /\ Len(field) > 0
    /\ \A i \in 1..Len(field) : \E d \in 1..10 : Digits[d] = field[i]
RECURSIVE ValueOf(_)
ValueOf(field) ==
    IF Len(field) = 0 THEN 0
    ELSE 10 * ValueOf(SubSeq(field, 1, Len(field) - 1))
            + (CHOOSE d \in 0..9 : Digits[d + 1] = field[Len(field)])

C17_ResetSteps ==
    lastOp' = "resetStats"
        => /\ isTracking' = isTracking
           /\ inactivityTimer' = inactivityTimer
           /\ hostTimeouts' = hostTimeouts
           /\ updateInterval' = updateInterval
           /\ hostIntervals' = hostIntervals
           /\ isTracking => startTime' = now' /\ currentSessionTime' = 0

C17_ResetKeepsMode == [][C17_ResetSteps]_vars

C17_Witness ==
    /\ lastOp = "resetStats"
    /\ isTracking
    /\ updateInterval
    /\ inactivityTimer \in hostTimeouts
    /\ inactivityTimer < now + inactivityTimeout
    /\ startTime = now
    /\ now > 0

\* C18: getStats() never writes the store and never changes isTracking,
\* startTime, currentSessionTime or computeElapsed(); of the fields in memory
\* it changes at most lastSaveTime, only when that is 0, to computeElapsed().
C18_GetStatsSteps ==
    lastOp' = "getStats"
        => /\ globalState' = globalState
           /\ isTracking' = isTracking
           /\ startTime' = startTime
           /\ currentSessionTime' = currentSessionTime
           /\ Elapsed' = Elapsed
           /\ inactivityTimer' = inactivityTimer
           /\ updateInterval' = updateInterval
           /\ subscriptions' = subscriptions
           /\ lastSaveTime' = IF lastSaveTime = 0 THEN Elapsed ELSE lastSaveTime

C18_GetStatsFrame == [][C18_GetStatsSteps]_vars

C18_Witness ==
    /\ lastOp = "getStats"
    /\ sinceSave = "none"
    /\ ~hadReset
    /\ lastSaveTime > 0
    /\ lastSaveTime = Elapsed
    /\ TotalTime = initialTotal

\* C19: the persisted totalTime of the current workspace is never negative
\* and decreases only through reset(); what has been added to it since
\* construction (or since the last reset()) never exceeds computeElapsed(),
\* and lastSaveTime never exceeds computeElapsed().
C19_Credited == TotalTime - (IF hadReset THEN 0 ELSE initialTotal)

C19_NoOverCreditingState ==
    /\ TotalTime >= 0
    /\ C19_Credited <= Elapsed
    /\ lastSaveTime <= Elapsed

C19_NoOverCrediting ==
    /\ [](C19_NoOverCreditingState)
    /\ [][TotalTime' < TotalTime => lastOp' = "resetStats"]_vars

C19_Witness ==
    /\ lastOp \in SaveOps
    /\ lastSaveGap = "accrued"
    /\ ~hadReset
    /\ TotalTime > initialTotal
    /\ lastSaveTime = Elapsed

\* C20: the tracker holds at most one subscription to each activity event,
\* however many stop/start cycles there were, so one host event runs
\* onActivity once.
C20_SingleSubscription == subscriptions <= 1

====
